---- MODULE Spec2Model ----
(***************************************************************************)
(* File-based doubly linked lists of storage/innobase/fut/fut0lst.cc.      *)
(*                                                                         *)
(* The page frames are modelled as a map from the page number to the bytes *)
(* of the page from FIL_PAGE_DATA on, which hold the base node and the     *)
(* list nodes.  The state of one mini-transaction is threaded through the  *)
(* operators as a record                                                   *)
(*   [mem, log, memo, fetches]                                             *)
(* mem: the page frames, log: the redo records issued so far, memo: the    *)
(* pages latched by the mini-transaction, fetches: the buf_page_get_gen    *)
(* calls made so far with their results.                                   *)
(***************************************************************************)
EXTENDS Integers, Sequences, FiniteSets, TLC

\* ---------------------------------------------------------------- bounds
NumNodes == 3
MaxOps == 4

\* ------------------------------------------------------ program constants
\* 0xFFFFFFFF, the four 0xff bytes flst_zero_both stores, read as a signed
\* 32-bit integer (page numbers of the model stay far below 2^31)
FIL_NULL == -1
FIL_PAGE_DATA == 38
FIL_ADDR_PAGE == 0
FIL_ADDR_BYTE == 4
FIL_ADDR_SIZE == 6
FLST_LEN == 0
FLST_FIRST == 4
FLST_LAST == FLST_FIRST + FIL_ADDR_SIZE
FLST_PREV == 0
FLST_NEXT == FLST_PREV + FIL_ADDR_SIZE
FLST_NODE_SIZE == 2 * FIL_ADDR_SIZE

DB_SUCCESS == "DB_SUCCESS"
DB_CORRUPTION == "DB_CORRUPTION"
\* errors buf_page_get_gen can hand back through its err argument
FetchErrors == {"DB_IO_ERROR", "DB_PAGE_CORRUPTED"}
FetchResults == {DB_SUCCESS} \cup FetchErrors

\* ------------------------------------------------------------- addresses
\* fil_addr_t: <<page, boffset>>
NullAddr == <<FIL_NULL, 0>>

\* ------------------------------------------------------ byte-level reads
\* mem[page][off] is the byte at offset off of the frame of page.  Integers
\* are stored most significant byte first; a 4-byte integer is read as a
\* signed 32-bit value, so that 0xFFFFFFFF is FIL_NULL.
Pow256(n) == IF n = 0 THEN 1 ELSE IF n = 1 THEN 256 ELSE IF n = 2 THEN 65536 ELSE 16777216

\* byte k (0 is the most significant) of val stored in len bytes
mach_write_byte(val, len, k) == (val \div Pow256(len - 1 - k)) % 256

mach_read_from_4(mem, page, off) ==
  LET b0 == mem[page][off]
  IN  (IF b0 >= 128 THEN b0 - 256 ELSE b0) * 16777216 + mem[page][off + 1] * 65536
        + mem[page][off + 2] * 256 + mem[page][off + 3]

mach_read_from_2(mem, page, off) == mem[page][off] * 256 + mem[page][off + 1]

flst_read_addr(mem, page, faddr) ==
  <<mach_read_from_4(mem, page, faddr + FIL_ADDR_PAGE),
    mach_read_from_2(mem, page, faddr + FIL_ADDR_BYTE)>>

flst_get_len(mem, page, base) == mach_read_from_4(mem, page, base + FLST_LEN)
flst_get_first(mem, page, base) == flst_read_addr(mem, page, base + FLST_FIRST)
flst_get_last(mem, page, base) == flst_read_addr(mem, page, base + FLST_LAST)
flst_get_next_addr(mem, page, node) == flst_read_addr(mem, page, node + FLST_NEXT)
flst_get_prev_addr(mem, page, node) == flst_read_addr(mem, page, node + FLST_PREV)

\* byte k of the 6 bytes of a file address
fil_addr_byte(addr, k) ==
  IF k < FIL_ADDR_BYTE THEN mach_write_byte(addr[1], 4, k - FIL_ADDR_PAGE)
  ELSE mach_write_byte(addr[2], 2, k - FIL_ADDR_BYTE)

\* ------------------------------------------- mini-transaction primitives
\* the frames with the bytes at off of page replaced by the tuple bytes
\* (of 1, 2, 4 or FIL_ADDR_SIZE bytes, the widths fut0lst.cc writes)
StoreBytes(mem, page, off, bytes) ==
  [mem EXCEPT ![page] =
     IF Len(bytes) = 1 THEN [@ EXCEPT ![off] = bytes[1]]
     ELSE IF Len(bytes) = 2 THEN [@ EXCEPT ![off] = bytes[1], ![off + 1] = bytes[2]]
     ELSE IF Len(bytes) = 4
       THEN [@ EXCEPT ![off] = bytes[1], ![off + 1] = bytes[2],
                      ![off + 2] = bytes[3], ![off + 3] = bytes[4]]
     ELSE [@ EXCEPT ![off] = bytes[1], ![off + 1] = bytes[2], ![off + 2] = bytes[3],
                    ![off + 3] = bytes[4], ![off + 4] = bytes[5], ![off + 5] = bytes[6]]]

\* the redo record of a write of len bytes at off of page; fix records
\* whether the mini-transaction holds the page in its memo at that moment
\* (what ut_ad(mtr->memo_contains_page_flagged(...)) of the writers tests)
RedoRecord(x, kind, page, off, len) ==
  [kind |-> kind, page |-> page, off |-> off, len |-> len, fix |-> page \in x.memo]

\* mtr_t::write<len>(block, ptr, val): store val, append a redo record
mtr_write(x, page, off, len, val) ==
  [x EXCEPT !.mem = StoreBytes(@, page, off, [k \in 1 .. len |-> mach_write_byte(val, len, k - 1)]),
            !.log = Append(@, RedoRecord(x, "write", page, off, len))]

\* mtr_t::write<len, MAYBE_NOP>: nothing is logged when the value is unchanged
mtr_write_maybe_nop(x, page, off, len, val) ==
  IF \A k \in 0 .. (len - 1) : x.mem[page][off + k] = mach_write_byte(val, len, k)
    THEN x
    ELSE mtr_write(x, page, off, len, val)

\* mtr_t::write<1>(block, field + 3, val): the least significant byte of the
\* 4-byte field stored at off
mtr_write_low_byte(x, page, off, val) == mtr_write(x, page, off + 3, 1, val)

\* mtr_t::memset(block, ptr, 4, 0xff)
mtr_memset_ff4(x, page, off) ==
  [x EXCEPT !.mem = StoreBytes(@, page, off, <<255, 255, 255, 255>>),
            !.log = Append(@, RedoRecord(x, "memset", page, off, 4))]

\* mach_write_to_4 and mach_write_to_2 into fil_addr[6], then
\* mtr_t::memcpy(block, faddr, fil_addr, 6)
mtr_memcpy_addr(x, page, faddr, addr) ==
  [x EXCEPT !.mem = StoreBytes(@, page, faddr,
                               [k \in 1 .. FIL_ADDR_SIZE |-> fil_addr_byte(addr, k - 1)]),
            !.log = Append(@, RedoRecord(x, "memcpy", page, faddr, FIL_ADDR_SIZE))]

\* memcpy(dst, src, FIL_ADDR_SIZE) followed by mtr_t::memmove(b, dst, src, 6)
mtr_memmove_addr(x, page, dst, src) ==
  [x EXCEPT !.mem = StoreBytes(@, page, dst,
                               [k \in 1 .. FIL_ADDR_SIZE |-> x.mem[page][src + k - 1]]),
            !.log = Append(@, RedoRecord(x, "memmove", page, dst, FIL_ADDR_SIZE))]

\* buf_page_get_gen(page_id, zip, RW_SX_LATCH, nullptr, BUF_GET_POSSIBLY_FREED,
\* mtr, &err): res is what the buffer pool answers; on success the page is
\* latched in the mini-transaction
buf_page_get_gen(x, page, res) ==
  [x EXCEPT !.memo = IF res = DB_SUCCESS THEN @ \cup {page} ELSE @,
            !.fetches = Append(@, [page |-> page, res |-> res])]

\* flst_write_addr that always issues the 6-byte write
flst_write_addr_full(x, page, faddr, addr) == mtr_memcpy_addr(x, page, faddr, addr)

\* flst_write_addr whose page-only branch stores the two low bytes of the
\* page number alone
flst_write_addr_short_page(x, page, faddr, addr) ==
  LET same_page == mach_read_from_4(x.mem, page, faddr + FIL_ADDR_PAGE) = addr[1]
      same_offset == mach_read_from_2(x.mem, page, faddr + FIL_ADDR_BYTE) = addr[2]
  IN  IF same_page
        THEN IF ~same_offset
               THEN mtr_write(x, page, faddr + FIL_ADDR_BYTE, 2, addr[2])
               ELSE x
        ELSE IF same_offset
               THEN mtr_write(x, page, faddr + FIL_ADDR_PAGE + 2, 2, addr[1] % 65536)
               ELSE mtr_memcpy_addr(x, page, faddr, addr)

\* ----------------------------------------------------------- fut0lst.cc
\* The two ut_a of flst_write_addr hold of every call of the model: every
\* field and every non-null address lies at FIL_PAGE_DATA or beyond.
flst_write_addr(x, page, faddr, addr) ==
  LET same_page == mach_read_from_4(x.mem, page, faddr + FIL_ADDR_PAGE) = addr[1]
      same_offset == mach_read_from_2(x.mem, page, faddr + FIL_ADDR_BYTE) = addr[2]
  IN  IF same_page
        THEN IF ~same_offset
               THEN mtr_write(x, page, faddr + FIL_ADDR_BYTE, 2, addr[2])
               ELSE x
        ELSE IF same_offset
               THEN mtr_write(x, page, faddr + FIL_ADDR_PAGE, 4, addr[1])
               ELSE mtr_memcpy_addr(x, page, faddr, addr)

\* flst_zero_both that leaves the byte offset of the first address as it was
flst_zero_both_keeps_offset(x, page, addr) ==
  LET x1 == IF mach_read_from_4(x.mem, page, addr + FIL_ADDR_PAGE) # FIL_NULL
              THEN mtr_memset_ff4(x, page, addr + FIL_ADDR_PAGE)
              ELSE x
  IN  mtr_memmove_addr(x1, page, addr + FIL_ADDR_SIZE, addr)

flst_zero_both(x, page, addr) ==
  LET x1 == IF mach_read_from_4(x.mem, page, addr + FIL_ADDR_PAGE) # FIL_NULL
              THEN mtr_memset_ff4(x, page, addr + FIL_ADDR_PAGE)
              ELSE x
      x2 == mtr_write_maybe_nop(x1, page, addr + FIL_ADDR_BYTE, 2, 0)
  IN  mtr_memmove_addr(x2, page, addr + FIL_ADDR_SIZE, addr)

\* flst_add_to_empty that leaves FLST_LAST as it was
flst_add_to_empty_first_only(x, base, boffset, add, aoffset) ==
  LET x1 == mtr_write_low_byte(x, base, boffset + FLST_LEN, 1)
      x2 == flst_write_addr(x1, base, boffset + FLST_FIRST, <<add, aoffset>>)
  IN  flst_zero_both(x2, add, aoffset + FLST_PREV)

flst_add_to_empty(x, base, boffset, add, aoffset) ==
  LET x1 == mtr_write_low_byte(x, base, boffset + FLST_LEN, 1)
      x2 == flst_write_addr(x1, base, boffset + FLST_FIRST, <<add, aoffset>>)
      x3 == mtr_memmove_addr(x2, base, boffset + FLST_LAST, boffset + FLST_FIRST)
  IN  flst_zero_both(x3, add, aoffset + FLST_PREV)

\* flst_insert_after that returns DB_SUCCESS after a failed fetch
flst_insert_after_swallows_error(x, base, boffset, cur, coffset, add, aoffset, r) ==
  LET next_addr == flst_get_next_addr(x.mem, cur, coffset)
      x1 == flst_write_addr(x, add, aoffset + FLST_PREV, <<cur, coffset>>)
      x2 == flst_write_addr(x1, add, aoffset + FLST_NEXT, next_addr)
      fetched == buf_page_get_gen(x2, next_addr[1], r)
      x3 == IF next_addr[1] = FIL_NULL
              THEN flst_write_addr(x2, base, boffset + FLST_LAST, <<add, aoffset>>)
              ELSE IF r = DB_SUCCESS
                     THEN flst_write_addr(fetched, next_addr[1],
                                          next_addr[2] + FLST_PREV, <<add, aoffset>>)
                     ELSE fetched
      x4 == flst_write_addr(x3, cur, coffset + FLST_NEXT, <<add, aoffset>>)
      x5 == mtr_write(x4, base, boffset + FLST_LEN, 4,
                      mach_read_from_4(x4.mem, base, boffset + FLST_LEN) + 1)
  IN  [x |-> x5, err |-> DB_SUCCESS]

\* flst_insert_after that does not count the node
flst_insert_after_uncounted(x, base, boffset, cur, coffset, add, aoffset, r) ==
  LET next_addr == flst_get_next_addr(x.mem, cur, coffset)
      x1 == flst_write_addr(x, add, aoffset + FLST_PREV, <<cur, coffset>>)
      x2 == flst_write_addr(x1, add, aoffset + FLST_NEXT, next_addr)
      fetched == buf_page_get_gen(x2, next_addr[1], r)
      x3 == IF next_addr[1] = FIL_NULL
              THEN flst_write_addr(x2, base, boffset + FLST_LAST, <<add, aoffset>>)
              ELSE IF r = DB_SUCCESS
                     THEN flst_write_addr(fetched, next_addr[1],
                                          next_addr[2] + FLST_PREV, <<add, aoffset>>)
                     ELSE fetched
      err == IF next_addr[1] = FIL_NULL THEN DB_SUCCESS ELSE r
      x4 == flst_write_addr(x3, cur, coffset + FLST_NEXT, <<add, aoffset>>)
  IN  [x |-> x4, err |-> err]

\* flst_insert_after that takes the old successor from the next field of add
\* in place of the next field of cur
flst_insert_after_reads_add(x, base, boffset, cur, coffset, add, aoffset, r) ==
  LET next_addr == flst_get_next_addr(x.mem, add, aoffset)
      x1 == flst_write_addr(x, add, aoffset + FLST_PREV, <<cur, coffset>>)
      x2 == flst_write_addr(x1, add, aoffset + FLST_NEXT, next_addr)
      fetched == buf_page_get_gen(x2, next_addr[1], r)
      x3 == IF next_addr[1] = FIL_NULL
              THEN flst_write_addr(x2, base, boffset + FLST_LAST, <<add, aoffset>>)
              ELSE IF r = DB_SUCCESS
                     THEN flst_write_addr(fetched, next_addr[1],
                                          next_addr[2] + FLST_PREV, <<add, aoffset>>)
                     ELSE fetched
      err == IF next_addr[1] = FIL_NULL THEN DB_SUCCESS ELSE r
      x4 == flst_write_addr(x3, cur, coffset + FLST_NEXT, <<add, aoffset>>)
      x5 == mtr_write(x4, base, boffset + FLST_LEN, 4,
                      mach_read_from_4(x4.mem, base, boffset + FLST_LEN) + 1)
  IN  [x |-> x5, err |-> err]

\* the operations return [x |-> mini-transaction state, err |-> dberr_t];
\* the r arguments are what buf_page_get_gen answers, should it be called
flst_insert_after(x, base, boffset, cur, coffset, add, aoffset, r) ==
  LET next_addr == flst_get_next_addr(x.mem, cur, coffset)
      x1 == flst_write_addr(x, add, aoffset + FLST_PREV, <<cur, coffset>>)
      x2 == flst_write_addr(x1, add, aoffset + FLST_NEXT, next_addr)
      fetched == buf_page_get_gen(x2, next_addr[1], r)
      x3 == IF next_addr[1] = FIL_NULL
              THEN flst_write_addr(x2, base, boffset + FLST_LAST, <<add, aoffset>>)
              ELSE IF r = DB_SUCCESS
                     THEN flst_write_addr(fetched, next_addr[1],
                                          next_addr[2] + FLST_PREV, <<add, aoffset>>)
                     ELSE fetched
      err == IF next_addr[1] = FIL_NULL THEN DB_SUCCESS ELSE r
      x4 == flst_write_addr(x3, cur, coffset + FLST_NEXT, <<add, aoffset>>)
      x5 == mtr_write(x4, base, boffset + FLST_LEN, 4,
                      mach_read_from_4(x4.mem, base, boffset + FLST_LEN) + 1)
  IN  [x |-> x5, err |-> err]

\* flst_insert_before that returns at a failed fetch, before linking cur
flst_insert_before_stops_at_fetch(x, base, boffset, cur, coffset, add, aoffset, r) ==
  LET prev_addr == flst_get_prev_addr(x.mem, cur, coffset)
      x1 == flst_write_addr(x, add, aoffset + FLST_PREV, prev_addr)
      x2 == flst_write_addr(x1, add, aoffset + FLST_NEXT, <<cur, coffset>>)
      fetched == buf_page_get_gen(x2, prev_addr[1], r)
      x3 == IF prev_addr[1] = FIL_NULL
              THEN flst_write_addr(x2, base, boffset + FLST_FIRST, <<add, aoffset>>)
              ELSE flst_write_addr(fetched, prev_addr[1],
                                   prev_addr[2] + FLST_NEXT, <<add, aoffset>>)
      x4 == flst_write_addr(x3, cur, coffset + FLST_PREV, <<add, aoffset>>)
      x5 == mtr_write(x4, base, boffset + FLST_LEN, 4,
                      mach_read_from_4(x4.mem, base, boffset + FLST_LEN) + 1)
  IN  IF prev_addr[1] # FIL_NULL /\ r # DB_SUCCESS
        THEN [x |-> fetched, err |-> r]
        ELSE [x |-> x5, err |-> DB_SUCCESS]

\* flst_insert_before that writes the predecessor's next field without
\* fetching the predecessor's page
flst_insert_before_unlatched(x, base, boffset, cur, coffset, add, aoffset, r) ==
  LET prev_addr == flst_get_prev_addr(x.mem, cur, coffset)
      x1 == flst_write_addr(x, add, aoffset + FLST_PREV, prev_addr)
      x2 == flst_write_addr(x1, add, aoffset + FLST_NEXT, <<cur, coffset>>)
      x3 == IF prev_addr[1] = FIL_NULL
              THEN flst_write_addr(x2, base, boffset + FLST_FIRST, <<add, aoffset>>)
              ELSE flst_write_addr(x2, prev_addr[1], prev_addr[2] + FLST_NEXT,
                                   <<add, aoffset>>)
      x4 == flst_write_addr(x3, cur, coffset + FLST_PREV, <<add, aoffset>>)
      x5 == mtr_write(x4, base, boffset + FLST_LEN, 4,
                      mach_read_from_4(x4.mem, base, boffset + FLST_LEN) + 1)
  IN  [x |-> x5, err |-> DB_SUCCESS]

flst_insert_before(x, base, boffset, cur, coffset, add, aoffset, r) ==
  LET prev_addr == flst_get_prev_addr(x.mem, cur, coffset)
      x1 == flst_write_addr(x, add, aoffset + FLST_PREV, prev_addr)
      x2 == flst_write_addr(x1, add, aoffset + FLST_NEXT, <<cur, coffset>>)
      fetched == buf_page_get_gen(x2, prev_addr[1], r)
      x3 == IF prev_addr[1] = FIL_NULL
              THEN flst_write_addr(x2, base, boffset + FLST_FIRST, <<add, aoffset>>)
              ELSE IF r = DB_SUCCESS
                     THEN flst_write_addr(fetched, prev_addr[1],
                                          prev_addr[2] + FLST_NEXT, <<add, aoffset>>)
                     ELSE fetched
      err == IF prev_addr[1] = FIL_NULL THEN DB_SUCCESS ELSE r
      x4 == flst_write_addr(x3, cur, coffset + FLST_PREV, <<add, aoffset>>)
      x5 == mtr_write(x4, base, boffset + FLST_LEN, 4,
                      mach_read_from_4(x4.mem, base, boffset + FLST_LEN) + 1)
  IN  [x |-> x5, err |-> err]

\* flst_init that writes the length field whatever it holds
flst_init_writes_length(x, page, base) ==
  flst_zero_both(mtr_write(x, page, base + FLST_LEN, 4, 0), page, base + FLST_FIRST)

flst_init(x, page, base) ==
  flst_zero_both(mtr_write_maybe_nop(x, page, base + FLST_LEN, 4, 0),
                 page, base + FLST_FIRST)

\* flst_add_last that fetches the page of the tail even when it is the page
\* of the node being added
flst_add_last_always_fetches(x, base, boffset, add, aoffset, r1, r2) ==
  IF flst_get_len(x.mem, base, boffset) = 0
    THEN [x |-> flst_add_to_empty(x, base, boffset, add, aoffset), err |-> DB_SUCCESS]
    ELSE LET addr == flst_get_last(x.mem, base, boffset)
             fetched == buf_page_get_gen(x, addr[1], r1)
         IN  IF r1 # DB_SUCCESS
               THEN [x |-> fetched, err |-> r1]
               ELSE flst_insert_after(fetched, base, boffset, addr[1], addr[2],
                                      add, aoffset, r2)

flst_add_last(x, base, boffset, add, aoffset, r1, r2) ==
  IF flst_get_len(x.mem, base, boffset) = 0
    THEN [x |-> flst_add_to_empty(x, base, boffset, add, aoffset), err |-> DB_SUCCESS]
    ELSE LET addr == flst_get_last(x.mem, base, boffset)
         IN  IF addr[1] # add
               THEN LET fetched == buf_page_get_gen(x, addr[1], r1)
                    IN  IF r1 # DB_SUCCESS
                          THEN [x |-> fetched, err |-> r1]
                          ELSE flst_insert_after(fetched, base, boffset, addr[1], addr[2],
                                                 add, aoffset, r2)
               ELSE flst_insert_after(x, base, boffset, add, addr[2], add, aoffset, r2)

\* flst_add_first that links the node at the tail
flst_add_first_at_tail(x, base, boffset, add, aoffset, r1, r2) ==
  flst_add_last(x, base, boffset, add, aoffset, r1, r2)

flst_add_first(x, base, boffset, add, aoffset, r1, r2) ==
  IF flst_get_len(x.mem, base, boffset) = 0
    THEN [x |-> flst_add_to_empty(x, base, boffset, add, aoffset), err |-> DB_SUCCESS]
    ELSE LET addr == flst_get_first(x.mem, base, boffset)
         IN  IF addr[1] # add
               THEN LET fetched == buf_page_get_gen(x, addr[1], r1)
                    IN  IF r1 # DB_SUCCESS
                          THEN [x |-> fetched, err |-> r1]
                          ELSE flst_insert_before(fetched, base, boffset, addr[1], addr[2],
                                                  add, aoffset, r2)
               ELSE flst_insert_before(x, base, boffset, add, addr[2], add, aoffset, r2)

\* flst_remove that reports the error of the last failed fetch
flst_remove_last_error(x, base, boffset, cur, coffset, rp, rn) ==
  LET prev_addr == flst_get_prev_addr(x.mem, cur, coffset)
      next_addr == flst_get_next_addr(x.mem, cur, coffset)
      fetch_prev == prev_addr[1] # FIL_NULL /\ prev_addr[1] # cur
      fetch_next == next_addr[1] # FIL_NULL /\ next_addr[1] # cur
      fp == buf_page_get_gen(x, prev_addr[1], rp)
      x1 == IF prev_addr[1] = FIL_NULL
              THEN flst_write_addr(x, base, boffset + FLST_FIRST, next_addr)
              ELSE IF fetch_prev
                     THEN IF rp # DB_SUCCESS
                            THEN fp
                            ELSE flst_write_addr(fp, prev_addr[1],
                                                 prev_addr[2] + FLST_NEXT, next_addr)
                     ELSE flst_write_addr(x, cur, prev_addr[2] + FLST_NEXT, next_addr)
      err1 == IF fetch_prev THEN rp ELSE DB_SUCCESS
      fn == buf_page_get_gen(x1, next_addr[1], rn)
      x2 == IF next_addr[1] = FIL_NULL
              THEN flst_write_addr(x1, base, boffset + FLST_LAST, prev_addr)
              ELSE IF fetch_next
                     THEN IF rn # DB_SUCCESS
                            THEN fn
                            ELSE flst_write_addr(fn, next_addr[1],
                                                 next_addr[2] + FLST_PREV, prev_addr)
                     ELSE flst_write_addr(x1, cur, next_addr[2] + FLST_PREV, prev_addr)
      err2 == IF fetch_next /\ rn # DB_SUCCESS THEN rn ELSE err1
      len == mach_read_from_4(x2.mem, base, boffset + FLST_LEN)
  IN  IF len = 0
        THEN [x |-> x2, err |-> DB_CORRUPTION]
        ELSE [x |-> mtr_write(x2, base, boffset + FLST_LEN, 4, len - 1), err |-> err2]

\* flst_remove that leaves the successor's prev field as it was
flst_remove_succ_untouched(x, base, boffset, cur, coffset, rp, rn) ==
  LET prev_addr == flst_get_prev_addr(x.mem, cur, coffset)
      next_addr == flst_get_next_addr(x.mem, cur, coffset)
      fetch_prev == prev_addr[1] # FIL_NULL /\ prev_addr[1] # cur
      fp == buf_page_get_gen(x, prev_addr[1], rp)
      x1 == IF prev_addr[1] = FIL_NULL
              THEN flst_write_addr(x, base, boffset + FLST_FIRST, next_addr)
              ELSE IF fetch_prev
                     THEN IF rp # DB_SUCCESS
                            THEN fp
                            ELSE flst_write_addr(fp, prev_addr[1],
                                                 prev_addr[2] + FLST_NEXT, next_addr)
                     ELSE flst_write_addr(x, cur, prev_addr[2] + FLST_NEXT, next_addr)
      err1 == IF fetch_prev THEN rp ELSE DB_SUCCESS
      x2 == IF next_addr[1] = FIL_NULL
              THEN flst_write_addr(x1, base, boffset + FLST_LAST, prev_addr)
              ELSE x1
      len == mach_read_from_4(x2.mem, base, boffset + FLST_LEN)
  IN  IF len = 0
        THEN [x |-> x2, err |-> DB_CORRUPTION]
        ELSE [x |-> mtr_write(x2, base, boffset + FLST_LEN, 4, len - 1), err |-> err1]

\* flst_remove that also nulls the prev and next fields of the removed node
flst_remove_clears_cur(x, base, boffset, cur, coffset, rp, rn) ==
  LET prev_addr == flst_get_prev_addr(x.mem, cur, coffset)
      next_addr == flst_get_next_addr(x.mem, cur, coffset)
      fetch_prev == prev_addr[1] # FIL_NULL /\ prev_addr[1] # cur
      fetch_next == next_addr[1] # FIL_NULL /\ next_addr[1] # cur
      fp == buf_page_get_gen(x, prev_addr[1], rp)
      x1 == IF prev_addr[1] = FIL_NULL
              THEN flst_write_addr(x, base, boffset + FLST_FIRST, next_addr)
              ELSE IF fetch_prev
                     THEN IF rp # DB_SUCCESS
                            THEN fp
                            ELSE flst_write_addr(fp, prev_addr[1],
                                                 prev_addr[2] + FLST_NEXT, next_addr)
                     ELSE flst_write_addr(x, cur, prev_addr[2] + FLST_NEXT, next_addr)
      err1 == IF fetch_prev THEN rp ELSE DB_SUCCESS
      fn == buf_page_get_gen(x1, next_addr[1], rn)
      x2 == IF next_addr[1] = FIL_NULL
              THEN flst_write_addr(x1, base, boffset + FLST_LAST, prev_addr)
              ELSE IF fetch_next
                     THEN IF rn # DB_SUCCESS
                            THEN fn
                            ELSE flst_write_addr(fn, next_addr[1],
                                                 next_addr[2] + FLST_PREV, prev_addr)
                     ELSE flst_write_addr(x1, cur, next_addr[2] + FLST_PREV, prev_addr)
      err2 == IF fetch_next /\ rn # DB_SUCCESS /\ err1 = DB_SUCCESS THEN rn ELSE err1
      x3 == flst_zero_both(x2, cur, coffset + FLST_PREV)
      len == mach_read_from_4(x3.mem, base, boffset + FLST_LEN)
  IN  IF len = 0
        THEN [x |-> x3, err |-> DB_CORRUPTION]
        ELSE [x |-> mtr_write(x3, base, boffset + FLST_LEN, 4, len - 1), err |-> err2]

\* rp, rn: what buf_page_get_gen answers for the predecessor's and for the
\* successor's page
flst_remove(x, base, boffset, cur, coffset, rp, rn) ==
  LET prev_addr == flst_get_prev_addr(x.mem, cur, coffset)
      next_addr == flst_get_next_addr(x.mem, cur, coffset)
      fetch_prev == prev_addr[1] # FIL_NULL /\ prev_addr[1] # cur
      fetch_next == next_addr[1] # FIL_NULL /\ next_addr[1] # cur
      fp == buf_page_get_gen(x, prev_addr[1], rp)
      x1 == IF prev_addr[1] = FIL_NULL
              THEN flst_write_addr(x, base, boffset + FLST_FIRST, next_addr)
              ELSE IF fetch_prev
                     THEN IF rp # DB_SUCCESS
                            THEN fp
                            ELSE flst_write_addr(fp, prev_addr[1],
                                                 prev_addr[2] + FLST_NEXT, next_addr)
                     ELSE flst_write_addr(x, cur, prev_addr[2] + FLST_NEXT, next_addr)
      err1 == IF fetch_prev THEN rp ELSE DB_SUCCESS
      fn == buf_page_get_gen(x1, next_addr[1], rn)
      x2 == IF next_addr[1] = FIL_NULL
              THEN flst_write_addr(x1, base, boffset + FLST_LAST, prev_addr)
              ELSE IF fetch_next
                     THEN IF rn # DB_SUCCESS
                            THEN fn
                            ELSE flst_write_addr(fn, next_addr[1],
                                                 next_addr[2] + FLST_PREV, prev_addr)
                     ELSE flst_write_addr(x1, cur, next_addr[2] + FLST_PREV, prev_addr)
      err2 == IF fetch_next /\ rn # DB_SUCCESS /\ err1 = DB_SUCCESS THEN rn ELSE err1
      len == mach_read_from_4(x2.mem, base, boffset + FLST_LEN)
  IN  IF len = 0
        THEN [x |-> x2, err |-> DB_CORRUPTION]
        ELSE [x |-> mtr_write(x2, base, boffset + FLST_LEN, 4, len - 1), err |-> err2]

\* flst_validate: follow the field n times; a null address met before the
\* n-th hop fails ut_ad(b)
NoBlock == <<-2, -2>>

RECURSIVE flst_hops(_, _, _, _)
flst_hops(mem, addr, field, n) ==
  IF n = 0 THEN addr
  ELSE IF addr[1] = FIL_NULL \/ addr = NoBlock THEN NoBlock
  ELSE flst_hops(mem, flst_read_addr(mem, addr[1], addr[2] + field), field, n - 1)

flst_validate(mem, base, boffset) ==
  LET len == flst_get_len(mem, base, boffset)
  IN  /\ flst_hops(mem, flst_get_first(mem, base, boffset), FLST_NEXT, len)[1] = FIL_NULL
      /\ flst_hops(mem, flst_get_last(mem, base, boffset), FLST_PREV, len)[1] = FIL_NULL

\* ------------------------------------------------------------ the layout
\* The base node lives at BaseOff of page BasePage; node i lives at
\* NodeOff(i) of the page the placement gives it.
Nodes == 1 .. NumNodes
Pages == 1 .. NumNodes
BasePage == 0
BaseOff == FIL_PAGE_DATA
NodeOff(i) == FIL_PAGE_DATA + (i - 1) * FLST_NODE_SIZE

\* placements of the nodes on pages, one per pattern of equal and different pages
Placements ==
  {f \in [Nodes -> Pages] :
     /\ f[1] = 1
     /\ \A i \in Nodes : i > 1 => \E j \in 1 .. (i - 1) : f[i] <= f[j] + 1}

NodeAddr(pl, i) == <<pl[i], NodeOff(i)>>
NodeAddrs(pl) == {NodeAddr(pl, i) : i \in Nodes}

FLST_BASE_NODE_SIZE == 4 + 2 * FIL_ADDR_SIZE

\* the bytes <<page, offset>> of the base node and of the node at a
BaseCells == {<<BasePage, BaseOff + k>> : k \in 0 .. (FLST_BASE_NODE_SIZE - 1)}
NodeCells(a) == {<<a[1], a[2] + k>> : k \in 0 .. (FLST_NODE_SIZE - 1)}

\* the pages in the buffer pool and the offsets of the bytes kept of each
UsedPages(pl) == 0 .. (CHOOSE p \in Pages : (\E i \in Nodes : pl[i] = p)
                                            /\ \A i \in Nodes : pl[i] <= p)
PageBytes ==
  FIL_PAGE_DATA ..
    (FIL_PAGE_DATA - 1 + IF NumNodes * FLST_NODE_SIZE > FLST_BASE_NODE_SIZE
                           THEN NumNodes * FLST_NODE_SIZE ELSE FLST_BASE_NODE_SIZE)
Cells(pl) == UsedPages(pl) \X PageBytes

\* what the fields may hold before the list code first writes them: a (prev,
\* next) or (first, last) pair of a null address, a null page number with a
\* byte offset left behind, and the address of a node.  The base node starts
\* with any of the pairs; node 1 starts with the first, node 2 with the
\* second, node 3 with the third, node 4 with the first again, and so on.
StalePairs(pl) == {<<NullAddr, NodeAddr(pl, NumNodes)>>,
                   <<<<FIL_NULL, NodeOff(1)>>, NullAddr>>,
                   <<NodeAddr(pl, 1), <<FIL_NULL, NodeOff(1)>>>>}

StaleNodes(pl) ==
  [i \in Nodes |-> IF i % 3 = 1 THEN <<NullAddr, NodeAddr(pl, NumNodes)>>
                   ELSE IF i % 3 = 2 THEN <<<<FIL_NULL, NodeOff(1)>>, NullAddr>>
                   ELSE <<NodeAddr(pl, 1), <<FIL_NULL, NodeOff(1)>>>>]

StaleLens == {0, 2}

\* page frames with the base node holding (len, first, last), node i
\* holding the (prev, next) pair stale[i] and every other byte 0
Frames(pl, len, first, last, stale) ==
  [p \in UsedPages(pl) |->
     [o \in PageBytes |->
        IF <<p, o>> \in BaseCells
          THEN LET k == o - BaseOff
               IN  IF k < FLST_FIRST THEN mach_write_byte(len, 4, k - FLST_LEN)
                   ELSE IF k < FLST_LAST THEN fil_addr_byte(first, k - FLST_FIRST)
                   ELSE fil_addr_byte(last, k - FLST_LAST)
        ELSE IF \E j \in Nodes : <<p, o>> \in NodeCells(NodeAddr(pl, j))
          THEN LET i == CHOOSE j \in Nodes : <<p, o>> \in NodeCells(NodeAddr(pl, j))
                   k == o - NodeOff(i)
               IN  IF k < FLST_NEXT THEN fil_addr_byte(stale[i][1], k - FLST_PREV)
                   ELSE fil_addr_byte(stale[i][2], k - FLST_NEXT)
        ELSE 0]]

\* ------------------------------------------------------------- traversal
\* the addresses met from addr by following field until a null page number,
\* cut off after NumNodes + 1 of them (a walk that long is in a cycle)
RECURSIVE Walk(_, _, _, _)
Walk(mem, addr, field, fuel) ==
  IF addr[1] = FIL_NULL \/ fuel = 0 THEN <<>>
  ELSE <<addr>> \o Walk(mem, flst_read_addr(mem, addr[1], addr[2] + field), field, fuel - 1)

Forward(mem) == Walk(mem, flst_get_first(mem, BasePage, BaseOff), FLST_NEXT, NumNodes + 1)
Backward(mem) == Walk(mem, flst_get_last(mem, BasePage, BaseOff), FLST_PREV, NumNodes + 1)
Members(mem) == LET fw == Forward(mem) IN {fw[k] : k \in 1 .. Len(fw)}

Reverse(s) == [k \in 1 .. Len(s) |-> s[Len(s) + 1 - k]]

\* ---------------------------------------------------------------- state
VARIABLES
  placement,   \* the page of every node
  frames,      \* the page frames in the buffer pool
  committed,   \* the page frames as of the last committed mini-transaction
  mlog,        \* redo records of the running mini-transaction
  memo,        \* pages latched by the running mini-transaction
  fetches,     \* buf_page_get_gen calls of the running operation
  call,        \* the operation that ran last: [op, cur, add]
  err,         \* what it returned
  pc,          \* "uninit", "idle" (no mini-transaction), "returned"
  nops,        \* operations committed since flst_init
  val,         \* the local variables of a running flst_validate
  thr,         \* the threads that run mini-transactions concurrently
  latch,       \* the thread holding the latch of each page, 0 for none
  granted      \* the operations in the order the base page latch was granted

vars == <<placement, frames, committed, mlog, memo, fetches, call, err, pc, nops,
          val, thr, latch, granted>>

\* what the single caller of the list leaves alone: no flst_validate runs and
\* no other thread exists
NoValidate == [dir |-> "none", i |-> 0, addr |-> NullAddr, mtr2 |-> {}]
OneThread ==
  /\ val = NoValidate
  /\ thr = <<>>
  /\ latch = <<>>
  /\ granted = <<>>

NoCall == [op |-> "none", cur |-> NullAddr, add |-> NullAddr]

\* the mini-transaction of a caller that holds the latches the operation asks for
MtrStart(latched) == [mem |-> frames, log |-> <<>>, memo |-> latched, fetches |-> <<>>]

Returned(res, c) ==
  /\ frames' = res.x.mem
  /\ mlog' = res.x.log
  /\ memo' = res.x.memo
  /\ fetches' = res.x.fetches
  /\ err' = res.err
  /\ call' = c
  /\ pc' = "returned"
  /\ UNCHANGED <<placement, committed, nops, val, thr, latch, granted>>

Init ==
  /\ placement \in Placements
  /\ \E len \in StaleLens, b \in StalePairs(placement) :
       frames = Frames(placement, len, b[1], b[2], StaleNodes(placement))
  /\ committed = frames
  /\ mlog = <<>>
  /\ memo = {}
  /\ fetches = <<>>
  /\ call = NoCall
  /\ err = "none"
  /\ pc = "uninit"
  /\ nops = 0
  /\ OneThread

\* flst_init on the base node; the caller commits
Initialize ==
  /\ pc = "uninit"
  /\ LET x == flst_init(MtrStart({BasePage}), BasePage, BaseOff)
     IN  Returned([x |-> x, err |-> DB_SUCCESS], [NoCall EXCEPT !.op = "flst_init"])

AddFirst ==
  /\ pc = "idle" /\ nops < MaxOps
  /\ \E a \in NodeAddrs(placement) \ Members(frames), r1 \in FetchResults, r2 \in FetchResults :
       Returned(flst_add_first(MtrStart({BasePage, a[1]}), BasePage, BaseOff, a[1], a[2], r1, r2),
                [op |-> "flst_add_first", cur |-> NullAddr, add |-> a])

AddLast ==
  /\ pc = "idle" /\ nops < MaxOps
  /\ \E a \in NodeAddrs(placement) \ Members(frames), r1 \in FetchResults, r2 \in FetchResults :
       Returned(flst_add_last(MtrStart({BasePage, a[1]}), BasePage, BaseOff, a[1], a[2], r1, r2),
                [op |-> "flst_add_last", cur |-> NullAddr, add |-> a])

InsertAfter ==
  /\ pc = "idle" /\ nops < MaxOps
  /\ \E c \in Members(frames), a \in NodeAddrs(placement) \ Members(frames), r \in FetchResults :
       Returned(flst_insert_after(MtrStart({BasePage, c[1], a[1]}), BasePage, BaseOff,
                                  c[1], c[2], a[1], a[2], r),
                [op |-> "flst_insert_after", cur |-> c, add |-> a])

InsertBefore ==
  /\ pc = "idle" /\ nops < MaxOps
  /\ \E c \in Members(frames), a \in NodeAddrs(placement) \ Members(frames), r \in FetchResults :
       Returned(flst_insert_before(MtrStart({BasePage, c[1], a[1]}), BasePage, BaseOff,
                                   c[1], c[2], a[1], a[2], r),
                [op |-> "flst_insert_before", cur |-> c, add |-> a])

\* flst_remove of a member
Remove ==
  /\ pc = "idle" /\ nops < MaxOps
  /\ \E c \in Members(frames), rp \in FetchResults, rn \in FetchResults :
       Returned(flst_remove(MtrStart({BasePage, c[1]}), BasePage, BaseOff, c[1], c[2], rp, rn),
                [op |-> "flst_remove", cur |-> c, add |-> NullAddr])

\* flst_remove of any node while the base node says the list is empty
RemoveFromEmpty ==
  /\ pc = "idle" /\ nops < MaxOps
  /\ flst_get_len(frames, BasePage, BaseOff) = 0
  /\ \E c \in NodeAddrs(placement), rp \in FetchResults, rn \in FetchResults :
       Returned(flst_remove(MtrStart({BasePage, c[1]}), BasePage, BaseOff, c[1], c[2], rp, rn),
                [op |-> "flst_remove", cur |-> c, add |-> NullAddr])

\* the caller commits the mini-transaction of an operation that succeeded
Commit ==
  /\ pc = "returned" /\ err = DB_SUCCESS
  /\ committed' = frames
  /\ mlog' = <<>> /\ memo' = {} /\ fetches' = <<>>
  /\ call' = NoCall /\ err' = "none" /\ pc' = "idle"
  /\ nops' = IF call.op = "flst_init" THEN nops ELSE nops + 1
  /\ UNCHANGED <<placement, frames, val, thr, latch, granted>>

\* the caller discards the mini-transaction of an operation that failed
Abort ==
  /\ pc = "returned" /\ err # DB_SUCCESS
  /\ frames' = committed
  /\ mlog' = <<>> /\ memo' = {} /\ fetches' = <<>>
  /\ call' = NoCall /\ err' = "none" /\ pc' = "idle"
  /\ UNCHANGED <<placement, committed, nops, val, thr, latch, granted>>

Next ==
  \/ Initialize
  \/ AddFirst
  \/ AddLast
  \/ InsertAfter
  \/ InsertBefore
  \/ Remove
  \/ RemoveFromEmpty
  \/ Commit
  \/ Abort

Spec == Init /\ [][Next]_vars

\* The three-element scenario: flst_init, flst_add_last(A), flst_add_last(B),
\* flst_insert_after(cur = A, add = C), flst_remove(C); a step whose
\* mini-transaction was discarded is taken again.
NodeA == NodeAddr(placement, 1)
NodeB == NodeAddr(placement, 2)
NodeC == NodeAddr(placement, 3)

ScenarioAddLastA ==
  /\ pc = "idle" /\ nops = 0
  /\ \E r1 \in FetchResults, r2 \in FetchResults :
       Returned(flst_add_last(MtrStart({BasePage, NodeA[1]}), BasePage, BaseOff,
                              NodeA[1], NodeA[2], r1, r2),
                [op |-> "flst_add_last", cur |-> NullAddr, add |-> NodeA])

ScenarioAddLastB ==
  /\ pc = "idle" /\ nops = 1
  /\ \E r1 \in FetchResults, r2 \in FetchResults :
       Returned(flst_add_last(MtrStart({BasePage, NodeB[1]}), BasePage, BaseOff,
                              NodeB[1], NodeB[2], r1, r2),
                [op |-> "flst_add_last", cur |-> NullAddr, add |-> NodeB])

ScenarioInsertCAfterA ==
  /\ pc = "idle" /\ nops = 2
  /\ \E r \in FetchResults :
       Returned(flst_insert_after(MtrStart({BasePage, NodeA[1], NodeC[1]}), BasePage, BaseOff,
                                  NodeA[1], NodeA[2], NodeC[1], NodeC[2], r),
                [op |-> "flst_insert_after", cur |-> NodeA, add |-> NodeC])

ScenarioRemoveC ==
  /\ pc = "idle" /\ nops = 3
  /\ \E rp \in FetchResults, rn \in FetchResults :
       Returned(flst_remove(MtrStart({BasePage, NodeC[1]}), BasePage, BaseOff,
                            NodeC[1], NodeC[2], rp, rn),
                [op |-> "flst_remove", cur |-> NodeC, add |-> NullAddr])

ScenarioNext ==
  \/ Initialize
  \/ ScenarioAddLastA
  \/ ScenarioAddLastB
  \/ ScenarioInsertCAfterA
  \/ ScenarioRemoveC
  \/ Commit
  \/ Abort

SpecScenario == Init /\ [][ScenarioNext]_vars

TypeOK ==
  /\ placement \in Placements
  /\ DOMAIN frames = UsedPages(placement)
  /\ \A p \in DOMAIN frames : DOMAIN frames[p] = PageBytes
  /\ pc \in {"uninit", "idle", "returned"}
  /\ pc = "idle" => frames = committed

\* ============================================================ properties
Length(mem) == flst_get_len(mem, BasePage, BaseOff)
First(mem) == flst_get_first(mem, BasePage, BaseOff)
Last(mem) == flst_get_last(mem, BasePage, BaseOff)
Prev(mem, a) == flst_get_prev_addr(mem, a[1], a[2])
NextOf(mem, a) == flst_get_next_addr(mem, a[1], a[2])
IsNull(a) == a[1] = FIL_NULL

StructuralOps == {"flst_add_first", "flst_add_last", "flst_insert_before",
                  "flst_insert_after", "flst_remove"}

\* an operation of the list has returned success
Succeeded == pc = "returned" /\ err = DB_SUCCESS /\ call.op \in StructuralOps

\* the state the claims about completed operations speak of: flst_init has
\* run and the last operation, if any, returned success
Settled == pc = "idle" \/ (pc = "returned" /\ err = DB_SUCCESS)

\* a walk that stopped at a null address, not at the cut-off
Ended(walk) == Len(walk) <= NumNodes

\* C1: after flst_init and after every operation that returned success, the
\* length field of the base node is the number of next-hops from first to
\* the null address and the number of prev-hops from last to the null address.
C1_LengthIsHops ==
  Settled =>
    LET fw == Forward(frames)
        bw == Backward(frames)
    IN  /\ Ended(fw) /\ Len(fw) = Length(frames)
        /\ Ended(bw) /\ Len(bw) = Length(frames)
        /\ flst_validate(frames, BasePage, BaseOff)

\* a node with both neighbours has been removed from a list of three
C1_Witness ==
  /\ Succeeded /\ call.op = "flst_remove"
  /\ Length(frames) = 2
  /\ ~IsNull(Prev(frames, call.cur)) /\ ~IsNull(NextOf(frames, call.cur))

\* C2: after every operation that returned success the first node's prev and
\* the last node's next are null, n.next = m implies m.prev = n for adjacent
\* members, and the forward traversal reversed is the backward traversal.
C2_MutuallyLinked ==
  Settled =>
    LET fw == Forward(frames)
    IN  /\ Len(fw) > 0 => IsNull(Prev(frames, fw[1])) /\ IsNull(NextOf(frames, fw[Len(fw)]))
        /\ \A k \in 1 .. (Len(fw) - 1) :
             NextOf(frames, fw[k]) = fw[k + 1] /\ Prev(frames, fw[k + 1]) = fw[k]
        /\ Reverse(fw) = Backward(frames)

\* a node has been inserted between two members
C2_Witness ==
  /\ Succeeded /\ call.op = "flst_insert_before"
  /\ Len(Forward(frames)) = 3 /\ Forward(frames)[2] = call.add

\* C3: after flst_init and every operation that returned success, length = 0,
\* first.page = FIL_NULL and last.page = FIL_NULL are all true or all false.
C3_EmptyIffNull ==
  Settled =>
    /\ (Length(frames) = 0) <=> IsNull(First(frames))
    /\ (Length(frames) = 0) <=> IsNull(Last(frames))

\* the last member has been removed
C3_Witness ==
  /\ Succeeded /\ call.op = "flst_remove"
  /\ Length(frames) = 0 /\ IsNull(First(frames)) /\ IsNull(Last(frames))

\* the abstract list operations on a sequence of addresses
IndexOf(s, a) == CHOOSE k \in 1 .. Len(s) : s[k] = a
InsertAt(s, k, a) == SubSeq(s, 1, k - 1) \o <<a>> \o SubSeq(s, k, Len(s))
DeleteAt(s, k) == SubSeq(s, 1, k - 1) \o SubSeq(s, k + 1, Len(s))

Abstract(s, c) ==
  CASE c.op = "flst_add_last" -> Append(s, c.add)
    [] c.op = "flst_add_first" -> <<c.add>> \o s
    [] c.op = "flst_insert_after" -> InsertAt(s, IndexOf(s, c.cur) + 1, c.add)
    [] c.op = "flst_insert_before" -> InsertAt(s, IndexOf(s, c.cur), c.add)
    [] c.op = "flst_remove" -> DeleteAt(s, IndexOf(s, c.cur))
    [] OTHER -> s

\* C4: with all page fetches succeeding, the forward traversal after
\* flst_add_last(X) is the one before with X appended, after flst_add_first(X)
\* with X prepended, after flst_insert_after(cur, X) with X right after cur,
\* after flst_insert_before(cur, X) with X right before cur, after
\* flst_remove(X) with X deleted; the other members keep their order.
C4_RefinesSequence ==
  [][(pc = "idle" /\ pc' = "returned" /\ err' = DB_SUCCESS)
       => Forward(frames') = Abstract(Forward(frames), call')]_vars

\* a node has been inserted right after the first of two members
C4_Witness ==
  /\ Succeeded /\ call.op = "flst_insert_after"
  /\ Len(Forward(frames)) = 3
  /\ Forward(frames)[1] = call.cur /\ Forward(frames)[2] = call.add

\* no redo record of the running mini-transaction covers a byte of the
\* file address stored at faddr of page
NotLogged(page, faddr) ==
  \A k \in 1 .. Len(mlog) :
    mlog[k].page # page \/ mlog[k].off + mlog[k].len <= faddr
      \/ faddr + FIL_ADDR_SIZE <= mlog[k].off

\* C5: flst_remove on a base node whose length field is 0 returns
\* DB_CORRUPTION, leaves the base node and the target node as they were,
\* whatever the target's prev and next hold, and issues no logged write.
C5_RemoveFromEmptyUntouched ==
  (pc = "returned" /\ call.op = "flst_remove" /\ Length(committed) = 0) =>
    /\ err = DB_CORRUPTION
    /\ \A c \in BaseCells \cup NodeCells(call.cur) :
         frames[c[1]][c[2]] = committed[c[1]][c[2]]
    /\ mlog = <<>>

\* C6: flst_insert_after (flst_insert_before) with a non-null old next
\* (prev) of cur fetches that neighbour's page; when the fetch succeeds the
\* neighbour's prev (next) is add; when it fails the function returns the
\* fetch error, the neighbour's field is not written, add.prev and add.next
\* hold what they were given, cur.next (cur.prev) is add and the length is
\* one more than before.
C6_InsertNeighbourFetch ==
  /\ (pc = "returned" /\ call.op = "flst_insert_after"
        /\ ~IsNull(NextOf(committed, call.cur))) =>
       LET nb == NextOf(committed, call.cur)
       IN  /\ Len(fetches) = 1 /\ fetches[1].page = nb[1]
           /\ err = fetches[1].res
           /\ err = DB_SUCCESS => Prev(frames, nb) = call.add
           /\ err # DB_SUCCESS =>
                /\ Prev(frames, nb) = Prev(committed, nb)
                /\ NotLogged(nb[1], nb[2] + FLST_PREV)
           /\ Prev(frames, call.add) = call.cur
           /\ NextOf(frames, call.add) = nb
           /\ NextOf(frames, call.cur) = call.add
           /\ Length(frames) = Length(committed) + 1
  /\ (pc = "returned" /\ call.op = "flst_insert_before"
        /\ ~IsNull(Prev(committed, call.cur))) =>
       LET nb == Prev(committed, call.cur)
       IN  /\ Len(fetches) = 1 /\ fetches[1].page = nb[1]
           /\ err = fetches[1].res
           /\ err = DB_SUCCESS => NextOf(frames, nb) = call.add
           /\ err # DB_SUCCESS =>
                /\ NextOf(frames, nb) = NextOf(committed, nb)
                /\ NotLogged(nb[1], nb[2] + FLST_NEXT)
           /\ Prev(frames, call.add) = nb
           /\ NextOf(frames, call.add) = call.cur
           /\ Prev(frames, call.cur) = call.add
           /\ Length(frames) = Length(committed) + 1

\* flst_insert_before has returned the error of the failed fetch of the
\* predecessor's page
C6_Witness ==
  /\ pc = "returned" /\ call.op = "flst_insert_before"
  /\ ~IsNull(Prev(committed, call.cur))
  /\ err \in FetchErrors
  /\ Prev(frames, call.cur) = call.add

\* C7: in flst_remove on a list with length > 0 a failed fetch of one
\* neighbour's page does not stop the other steps: the other neighbour (or
\* base.first / base.last) is written, the length is decremented, and the
\* value returned is the error of the predecessor's fetch if it failed,
\* otherwise that of the successor's fetch if it failed, otherwise success.
C7_RemoveCompletesOtherSteps ==
  (pc = "returned" /\ call.op = "flst_remove" /\ Length(committed) > 0) =>
    LET p == Prev(committed, call.cur)
        n == NextOf(committed, call.cur)
        fetch_p == ~IsNull(p) /\ p[1] # call.cur[1]
        fetch_n == ~IsNull(n) /\ n[1] # call.cur[1]
        res_p == IF fetch_p THEN fetches[1].res ELSE DB_SUCCESS
        res_n == IF fetch_n THEN fetches[Len(fetches)].res ELSE DB_SUCCESS
    IN  /\ Len(fetches) = (IF fetch_p THEN 1 ELSE 0) + (IF fetch_n THEN 1 ELSE 0)
        /\ fetch_p => fetches[1].page = p[1]
        /\ fetch_n => fetches[Len(fetches)].page = n[1]
        /\ IsNull(p) => First(frames) = n
        /\ (~IsNull(p) /\ res_p = DB_SUCCESS) => NextOf(frames, p) = n
        /\ IsNull(n) => Last(frames) = p
        /\ (~IsNull(n) /\ res_n = DB_SUCCESS) => Prev(frames, n) = p
        /\ Length(frames) = Length(committed) - 1
        /\ err = (IF res_p # DB_SUCCESS THEN res_p ELSE res_n)

\* both fetches of a flst_remove failed, with different errors
C7_Witness ==
  /\ pc = "returned" /\ call.op = "flst_remove" /\ Length(committed) > 0
  /\ Len(fetches) = 2
  /\ fetches[1].res \in FetchErrors /\ fetches[2].res \in FetchErrors
  /\ fetches[1].res # fetches[2].res
  /\ err = fetches[1].res

\* the invariants of section 3 of a base node and its chain
WellFormed(mem) ==
  LET fw == Forward(mem)
      bw == Backward(mem)
  IN  /\ Ended(fw) /\ Len(fw) = Length(mem)
      /\ Ended(bw) /\ Reverse(fw) = bw
      /\ (Length(mem) = 0) <=> IsNull(First(mem))
      /\ (Length(mem) = 0) <=> IsNull(Last(mem))
      /\ Len(fw) > 0 => IsNull(Prev(mem, fw[1])) /\ IsNull(NextOf(mem, fw[Len(fw)]))
      /\ \A k \in 1 .. (Len(fw) - 1) :
           NextOf(mem, fw[k]) = fw[k + 1] /\ Prev(mem, fw[k + 1]) = fw[k]

\* C8: when the caller commits the mini-transaction of an operation that
\* returned success and discards that of one that returned an error, the
\* committed state changes only to the complete state after an operation:
\* a well-formed list whose traversal is the abstract result of the operation.
C8_CommittedAllOrNothing ==
  [][(committed' # committed /\ call.op # "flst_init")
       => /\ call.op \in StructuralOps /\ err = DB_SUCCESS
          /\ committed' = frames
          /\ WellFormed(committed')
          /\ Forward(committed') = Abstract(Forward(committed), call)]_vars

\* an operation has returned an error with the list half updated
C8_Witness ==
  /\ pc = "returned" /\ err \in FetchErrors
  /\ frames # committed /\ ~WellFormed(frames) /\ WellFormed(committed)

\* C9: on an empty list flst_add_first(X) and flst_add_last(X) give first =
\* last = X, length = 1 and X.prev = X.next = null whatever X held before;
\* flst_remove(X) on the list of X alone returns success and gives
\* length = 0 and first = last = null.
C9_SingleElementLifecycle ==
  /\ (pc = "returned" /\ call.op \in {"flst_add_first", "flst_add_last"}
        /\ Length(committed) = 0) =>
       /\ err = DB_SUCCESS
       /\ First(frames) = call.add /\ Last(frames) = call.add
       /\ Length(frames) = 1
       /\ Prev(frames, call.add) = NullAddr /\ NextOf(frames, call.add) = NullAddr
  /\ (pc = "returned" /\ call.op = "flst_remove"
        /\ Forward(committed) = <<call.cur>>) =>
       /\ err = DB_SUCCESS
       /\ Length(frames) = 0
       /\ First(frames) = NullAddr /\ Last(frames) = NullAddr

\* X, which held a null page number with a byte offset left behind, has
\* been added to the list flst_init made and removed again
C9_Witness ==
  /\ pc = "returned" /\ call.op = "flst_remove" /\ nops = 1
  /\ Forward(committed) = <<call.cur>>
  /\ Length(frames) = 0

\* C10: from an empty list flst_add_last(A), flst_add_last(B),
\* flst_insert_after(cur = A, add = C) give forward order A, C, B, backward
\* order B, C, A and length 3; flst_remove(C) then gives forward order A, B,
\* length 2, A.next = B and B.prev = A, on whatever pages A, B and C lie.
C10_ThreeElementScenario ==
  /\ ((nops = 2 /\ Succeeded) \/ (nops = 3 /\ pc = "idle")) =>
       /\ Forward(frames) = <<NodeA, NodeC, NodeB>>
       /\ Backward(frames) = <<NodeB, NodeC, NodeA>>
       /\ Length(frames) = 3
  /\ ((nops = 3 /\ Succeeded) \/ (nops = 4 /\ pc = "idle")) =>
       /\ Forward(frames) = <<NodeA, NodeB>>
       /\ Length(frames) = 2
       /\ NextOf(frames, NodeA) = NodeB
       /\ Prev(frames, NodeB) = NodeA

\* C has been removed again, with A, B and C on three different pages
C10_Witness ==
  /\ nops = 3 /\ Succeeded /\ call.op = "flst_remove"
  /\ placement[1] # placement[2] /\ placement[2] # placement[3]
  /\ placement[1] # placement[3]

\* the pages the caller of the operation c has latched before the call
CallerLatches(c) ==
  {BasePage} \cup (IF c.cur = NullAddr THEN {} ELSE {c.cur[1]})
             \cup (IF c.add = NullAddr THEN {} ELSE {c.add[1]})

\* the pages the operation fetched with success
FetchedPages == {fetches[j].page : j \in {i \in 1 .. Len(fetches) : fetches[i].res = DB_SUCCESS}}

\* C11: every write an operation makes to a page is made while its
\* mini-transaction holds the latch of that page, which is the caller's
\* (base, cur, add) or the one a buf_page_get_gen of the operation took in
\* the same mini-transaction before the write; and no latch, the caller's or
\* a fetched one, has left the mini-transaction when the operation returns.
C11_WritesUnderLatch ==
  pc = "returned" =>
    /\ \A k \in 1 .. Len(mlog) :
         /\ mlog[k].fix
         /\ mlog[k].page \in CallerLatches(call) \cup FetchedPages
    /\ CallerLatches(call) \subseteq memo
    /\ FetchedPages \subseteq memo

\* an operation has written to a neighbour's page that the caller had not
\* latched
C11_Witness ==
  /\ pc = "returned" /\ call.op \in StructuralOps
  /\ \E k \in 1 .. Len(mlog) : mlog[k].page \notin CallerLatches(call)

\* the bytes <<page, offset>> of the len bytes at off of page
FieldBytes(page, off, len) == {<<page, off + k>> : k \in 0 .. (len - 1)}

\* the bytes flst_remove(cur) may change in the list held by mem: the next
\* field of cur's predecessor or else base.first, the prev field of cur's
\* successor or else base.last, and the length field
RemoveFootprint(mem, cur) ==
  LET pred == Prev(mem, cur)
      succ == NextOf(mem, cur)
  IN  (IF IsNull(pred) THEN FieldBytes(BasePage, BaseOff + FLST_FIRST, FIL_ADDR_SIZE)
       ELSE FieldBytes(pred[1], pred[2] + FLST_NEXT, FIL_ADDR_SIZE))
        \cup (IF IsNull(succ) THEN FieldBytes(BasePage, BaseOff + FLST_LAST, FIL_ADDR_SIZE)
              ELSE FieldBytes(succ[1], succ[2] + FLST_PREV, FIL_ADDR_SIZE))
        \cup FieldBytes(BasePage, BaseOff + FLST_LEN, 4)

\* the bytes in which two states of the frames differ
ChangedBytes(before, after) ==
  UNION {{<<p, o>> : o \in {b \in PageBytes : after[p][b] # before[p][b]}} :
           p \in {q \in UsedPages(placement) : after[q] # before[q]}}

\* C16: flst_remove(cur) of a member of a well-formed list, whatever it
\* returns, changes no byte of the frames outside the next field of cur's
\* predecessor (base.first when there is none), the prev field of cur's
\* successor (base.last when there is none) and the length field; the prev
\* and next fields of cur and of every other node are as before.
C16_RemoveFrame ==
  (pc = "returned" /\ call.op = "flst_remove" /\ WellFormed(committed)
     /\ call.cur \in Members(committed)) =>
    /\ ChangedBytes(committed, frames) \subseteq RemoveFootprint(committed, call.cur)
    /\ Prev(frames, call.cur) = Prev(committed, call.cur)
    /\ NextOf(frames, call.cur) = NextOf(committed, call.cur)
    /\ \A a \in NodeAddrs(placement) \ {Prev(committed, call.cur), NextOf(committed, call.cur)} :
         Prev(frames, a) = Prev(committed, a) /\ NextOf(frames, a) = NextOf(committed, a)

\* a node between two others, each on another page, has been removed
C16_Witness ==
  /\ Succeeded /\ call.op = "flst_remove" /\ call.cur \in Members(committed)
  /\ ~IsNull(Prev(committed, call.cur)) /\ ~IsNull(NextOf(committed, call.cur))
  /\ Prev(committed, call.cur)[1] # call.cur[1]
  /\ NextOf(committed, call.cur)[1] # call.cur[1]
  /\ Cardinality(ChangedBytes(committed, frames)) > 1

\* C17: flst_add_last (flst_add_first) on a non-empty list fetches the page
\* of the tail (head) exactly when it is not the page of the node being
\* added; a failed fetch ends the call with the error of the fetch, with no
\* further fetch and no write, so that the frames and the redo log are as
\* before the call; otherwise the node is linked behind the tail (before the
\* head).
C17_AddFetchesOtherPage ==
  /\ (pc = "returned" /\ call.op = "flst_add_last" /\ Length(committed) > 0) =>
       LET tail == Last(committed)
       IN  IF tail[1] = call.add[1]
             THEN /\ fetches = <<>>
                  /\ err = DB_SUCCESS /\ NextOf(frames, tail) = call.add
             ELSE /\ Len(fetches) = 1 /\ fetches[1].page = tail[1]
                  /\ err = fetches[1].res
                  /\ err = DB_SUCCESS => NextOf(frames, tail) = call.add
                  /\ err # DB_SUCCESS => mlog = <<>> /\ frames = committed
  /\ (pc = "returned" /\ call.op = "flst_add_first" /\ Length(committed) > 0) =>
       LET head == First(committed)
       IN  IF head[1] = call.add[1]
             THEN /\ fetches = <<>>
                  /\ err = DB_SUCCESS /\ Prev(frames, head) = call.add
             ELSE /\ Len(fetches) = 1 /\ fetches[1].page = head[1]
                  /\ err = fetches[1].res
                  /\ err = DB_SUCCESS => Prev(frames, head) = call.add
                  /\ err # DB_SUCCESS => mlog = <<>> /\ frames = committed

\* flst_add_last has returned the error of the failed fetch of the tail's
\* page, on a list of two nodes
C17_Witness ==
  /\ pc = "returned" /\ call.op = "flst_add_last" /\ Length(committed) = 2
  /\ Last(committed)[1] # call.add[1]
  /\ err \in FetchErrors /\ Len(fetches) = 1

\* C19: after flst_init and after every operation that returned success,
\* every null address held by base.first, base.last or the prev or next
\* field of a member of the list has the byte offset 0.
C19_NullOffsetZero ==
  Settled =>
    /\ IsNull(First(frames)) => First(frames) = NullAddr
    /\ IsNull(Last(frames)) => Last(frames) = NullAddr
    /\ \A a \in Members(frames) :
         /\ IsNull(Prev(frames, a)) => Prev(frames, a) = NullAddr
         /\ IsNull(NextOf(frames, a)) => NextOf(frames, a) = NullAddr

\* a node whose prev field held a null page number with a byte offset left
\* behind has become the head of a list of two or more nodes
C19_Witness ==
  /\ Succeeded /\ call.op \in {"flst_add_first", "flst_insert_before"}
  /\ Length(committed) > 0
  /\ IsNull(Prev(committed, call.add)) /\ Prev(committed, call.add) # NullAddr
  /\ First(frames) = call.add /\ Prev(frames, call.add) = NullAddr

\* ------------------------------------------------ flst_write_addr alone
\* A caller that holds the latch of a page writes addresses, one after the
\* other, into one 6-byte field of it.
MaxWrites == 2

\* the field: the next field of the first node slot of page 1
WrittenField == <<1, FIL_PAGE_DATA + FLST_NEXT>>

\* page numbers and byte offsets that differ from each other in their low
\* bytes, in their high bytes or in all of them
AddrPages == {FIL_NULL, 1, 2, 257}
AddrOffsets == {0, FIL_PAGE_DATA, FIL_PAGE_DATA + FLST_NODE_SIZE, FIL_PAGE_DATA + 256}
AddrValues == AddrPages \X AddrOffsets

\* the addresses both ut_a of flst_write_addr let pass
AcceptedAddrs == {a \in AddrValues : a[1] = FIL_NULL \/ a[2] >= FIL_PAGE_DATA}

\* frames whose field holds prior and whose other bytes hold fill
FieldFrames(prior, fill) ==
  [p \in 0 .. 1 |->
     [o \in PageBytes |->
        IF <<p, o>> \in FieldBytes(WrittenField[1], WrittenField[2], FIL_ADDR_SIZE)
          THEN fil_addr_byte(prior, o - WrittenField[2])
          ELSE fill]]

InitWriteAddr ==
  /\ placement = [i \in Nodes |-> 1]
  /\ \E prior \in AddrValues, fill \in {0, 255} : frames = FieldFrames(prior, fill)
  /\ committed = frames
  /\ mlog = <<>>
  /\ memo = {}
  /\ fetches = <<>>
  /\ call = NoCall
  /\ err = "none"
  /\ pc = "idle"
  /\ nops = 0
  /\ OneThread

\* flst_write_addr(block, faddr, page, boffset, mtr)
WriteAddr ==
  /\ pc = "idle" /\ nops < MaxWrites
  /\ \E a \in AcceptedAddrs :
       Returned([x |-> flst_write_addr(MtrStart({WrittenField[1]}), WrittenField[1],
                                       WrittenField[2], a),
                 err |-> DB_SUCCESS],
                [op |-> "flst_write_addr", cur |-> WrittenField, add |-> a])

\* the caller goes on to its next write
WriteAddrDone ==
  /\ pc = "returned"
  /\ committed' = frames
  /\ mlog' = <<>> /\ memo' = {} /\ fetches' = <<>>
  /\ call' = NoCall /\ err' = "none" /\ pc' = "idle"
  /\ nops' = nops + 1
  /\ UNCHANGED <<placement, frames, val, thr, latch, granted>>

NextWriteAddr ==
  \/ WriteAddr
  \/ WriteAddrDone

SpecWriteAddr == InitWriteAddr /\ [][NextWriteAddr]_vars

\* what the field held before the call
PriorAddr == flst_read_addr(committed, call.cur[1], call.cur[2])

\* C14: flst_write_addr logs nothing when the field already holds the page
\* number and the byte offset; one write of the 2 bytes of the offset when
\* only the offset differs; one write of the 4 bytes of the page number when
\* only the page number differs; one write of all 6 bytes when both differ.
C14_MinimalLoggedWrite ==
  (pc = "returned" /\ call.op = "flst_write_addr") =>
    LET faddr == call.cur[2]
        same_page == PriorAddr[1] = call.add[1]
        same_offset == PriorAddr[2] = call.add[2]
    IN  /\ (same_page /\ same_offset) => mlog = <<>>
        /\ (same_page /\ ~same_offset) =>
             /\ Len(mlog) = 1 /\ mlog[1].page = call.cur[1]
             /\ mlog[1].off = faddr + FIL_ADDR_BYTE /\ mlog[1].len = 2
        /\ (~same_page /\ same_offset) =>
             /\ Len(mlog) = 1 /\ mlog[1].page = call.cur[1]
             /\ mlog[1].off = faddr + FIL_ADDR_PAGE /\ mlog[1].len = 4
        /\ (~same_page /\ ~same_offset) =>
             /\ Len(mlog) = 1 /\ mlog[1].page = call.cur[1]
             /\ mlog[1].off = faddr /\ mlog[1].len = FIL_ADDR_SIZE

\* a second write to the field has changed the byte offset alone, with one
\* 2-byte record
C14_Witness ==
  /\ pc = "returned" /\ call.op = "flst_write_addr" /\ nops = 1
  /\ PriorAddr[1] = call.add[1] /\ PriorAddr[2] # call.add[2]
  /\ Len(mlog) = 1 /\ mlog[1].len = 2

\* C15: whatever the field held, after flst_write_addr of an accepted
\* (page, offset) the field reads back as (page, offset), and as a null page
\* number for a null address; the frames are those an unconditional write of
\* the 6 bytes gives, and no byte outside the field has changed.
C15_WriteReadRoundTrip ==
  (pc = "returned" /\ call.op = "flst_write_addr") =>
    LET page == call.cur[1]
        faddr == call.cur[2]
        before == [mem |-> committed, log |-> <<>>, memo |-> {page}, fetches |-> <<>>]
    IN  /\ flst_read_addr(frames, page, faddr) = call.add
        /\ IsNull(call.add) => mach_read_from_4(frames, page, faddr + FIL_ADDR_PAGE) = FIL_NULL
        /\ frames = mtr_memcpy_addr(before, page, faddr, call.add).mem
        /\ ChangedBytes(committed, frames) \subseteq FieldBytes(page, faddr, FIL_ADDR_SIZE)

\* the page-only branch has replaced a null page number by a page number
\* and left the byte offset in place
C15_Witness ==
  /\ pc = "returned" /\ call.op = "flst_write_addr"
  /\ IsNull(PriorAddr) /\ ~IsNull(call.add) /\ PriorAddr[2] = call.add[2]
  /\ Len(mlog) = 1 /\ mlog[1].len = 4
  /\ flst_read_addr(frames, call.cur[1], call.cur[2]) = call.add

\* ------------------------------------------------------- flst_init alone
\* A caller that holds the latch of the base page runs flst_init on a base
\* node region with arbitrary content, and then again.
MaxInits == 2

\* length fields: zero, low byte set, a higher byte set, all bytes 0xff
PriorLens == {0, 1, 256, -1}
PriorLasts == {NullAddr, <<FIL_NULL, FIL_PAGE_DATA>>, <<1, FIL_PAGE_DATA>>,
               <<257, FIL_PAGE_DATA + 256>>}

\* frames whose base node region holds (len, first, last) and whose other
\* bytes hold fill
BaseFrames(len, first, last, fill) ==
  [p \in 0 .. 1 |->
     [o \in PageBytes |->
        IF <<p, o>> \in BaseCells
          THEN LET k == o - BaseOff
               IN  IF k < FLST_FIRST THEN mach_write_byte(len, 4, k - FLST_LEN)
                   ELSE IF k < FLST_LAST THEN fil_addr_byte(first, k - FLST_FIRST)
                   ELSE fil_addr_byte(last, k - FLST_LAST)
          ELSE fill]]

InitFlstInit ==
  /\ placement = [i \in Nodes |-> 1]
  /\ \E len \in PriorLens, first \in AddrValues, last \in PriorLasts, fill \in {0, 255} :
       frames = BaseFrames(len, first, last, fill)
  /\ committed = frames
  /\ mlog = <<>>
  /\ memo = {}
  /\ fetches = <<>>
  /\ call = NoCall
  /\ err = "none"
  /\ pc = "idle"
  /\ nops = 0
  /\ OneThread

\* flst_init(block, base, mtr)
InitBase ==
  /\ pc = "idle" /\ nops < MaxInits
  /\ Returned([x |-> flst_init(MtrStart({BasePage}), BasePage, BaseOff), err |-> DB_SUCCESS],
              [NoCall EXCEPT !.op = "flst_init"])

\* the caller goes on
InitBaseDone ==
  /\ pc = "returned"
  /\ committed' = frames
  /\ mlog' = <<>> /\ memo' = {} /\ fetches' = <<>>
  /\ call' = NoCall /\ err' = "none" /\ pc' = "idle"
  /\ nops' = nops + 1
  /\ UNCHANGED <<placement, frames, val, thr, latch, granted>>

NextFlstInit ==
  \/ InitBase
  \/ InitBaseDone

SpecFlstInit == InitFlstInit /\ [][NextFlstInit]_vars

\* a redo record of the running mini-transaction covers some of the len
\* bytes at off of page
LoggedOver(page, off, len) ==
  \E k \in 1 .. Len(mlog) :
    mlog[k].page = page /\ mlog[k].off < off + len /\ off < mlog[k].off + mlog[k].len

\* C20: whatever the 16 bytes of the base node held, after flst_init the
\* length is 0 and first and last are the null address with byte offset 0,
\* and no byte outside the 16 has changed; no record is written for the
\* length field when it held 0 already, none for the page number of first
\* when it was FIL_NULL already; a second flst_init leaves the frames as the
\* first one left them.
C20_InitAnyPrior ==
  (pc = "returned" /\ call.op = "flst_init") =>
    /\ Length(frames) = 0
    /\ First(frames) = NullAddr /\ Last(frames) = NullAddr
    /\ ChangedBytes(committed, frames) \subseteq BaseCells
    /\ Length(committed) = 0 => ~LoggedOver(BasePage, BaseOff + FLST_LEN, 4)
    /\ IsNull(First(committed)) =>
         ~LoggedOver(BasePage, BaseOff + FLST_FIRST + FIL_ADDR_PAGE, 4)
    /\ nops > 0 => frames = committed

\* flst_init has run on a base node whose length was 0 and whose first held
\* a null page number with a byte offset, while last held an address
C20_Witness ==
  /\ pc = "returned" /\ call.op = "flst_init" /\ nops = 0
  /\ Length(committed) = 0
  /\ IsNull(First(committed)) /\ First(committed) # NullAddr
  /\ ~IsNull(Last(committed))
  /\ frames # committed

\* --------------------------------------------------- flst_validate by steps
\* flst_validate runs on well-formed lists, one statement of its loops at a
\* time.  pc is "test" at the loop condition, "get" after mtr2.start(),
\* "commit" before mtr2.commit(), "validated" at the end of the function and
\* "asserted" after a failed ut_ad.

\* a mini-transaction over mem that holds the latches of the pages latched
Mtr(mem, latched) == [mem |-> mem, log |-> <<>>, memo |-> latched, fetches |-> <<>>]

\* the frames after flst_add_last of the nodes of s, one after the other
RECURSIVE AddAll(_, _)
AddAll(mem, s) ==
  IF s = <<>> THEN mem
  ELSE AddAll(flst_add_last(Mtr(mem, {BasePage, s[1][1]}), BasePage, BaseOff,
                            s[1][1], s[1][2], DB_SUCCESS, DB_SUCCESS).x.mem,
              Tail(s))

\* the sequences of different nodes
NodeSeqs(pl) ==
  {s \in UNION {[1 .. n -> NodeAddrs(pl)] : n \in 0 .. NumNodes} :
     \A j, k \in 1 .. Len(s) : j # k => s[j] # s[k]}

\* the list flst_init and flst_add_last make of the nodes of s
ListFrames(pl, s) ==
  AddAll(flst_init(Mtr(Frames(pl, 0, NullAddr, NullAddr, [i \in Nodes |-> <<NullAddr, NullAddr>>]), {BasePage}),
                   BasePage, BaseOff).mem,
         s)

\* the caller holds the latch of the base page in its mini-transaction mtr
InitValidate ==
  /\ placement \in Placements
  /\ \E s \in NodeSeqs(placement) : frames = ListFrames(placement, s)
  /\ committed = frames
  /\ mlog = <<>>
  /\ memo = {BasePage}
  /\ fetches = <<>>
  /\ call = [NoCall EXCEPT !.op = "flst_validate"]
  /\ err = "none"
  /\ pc = "idle"
  /\ nops = 0
  /\ val = NoValidate
  /\ thr = <<>>
  /\ latch = <<>>
  /\ granted = <<>>

\* len= flst_get_len(flst); addr= flst_get_first(flst)
ValidateEnter ==
  /\ pc = "idle"
  /\ val' = [dir |-> "forward", i |-> flst_get_len(frames, BasePage, BaseOff),
             addr |-> flst_get_first(frames, BasePage, BaseOff), mtr2 |-> {}]
  /\ pc' = "test"
  /\ UNCHANGED <<placement, frames, committed, mlog, memo, fetches, call, err, nops,
                 thr, latch, granted>>

\* for (i= len; i--; ) { mtr2.start(); ...
ValidateLoop ==
  /\ pc = "test" /\ val.i > 0
  /\ val' = [val EXCEPT !.i = @ - 1]
  /\ pc' = "get"
  /\ UNCHANGED <<placement, frames, committed, mlog, memo, fetches, call, err, nops,
                 thr, latch, granted>>

\* b= buf_page_get_gen(page_id_t(space, addr.page), zip_size, RW_SX_LATCH,
\* nullptr, BUF_GET, mtr): the mini-transaction handed over is mtr, the
\* caller's, and not mtr2; then ut_ad(b) and addr= flst_get_next_addr(...)
\* (flst_get_prev_addr in the second loop)
ValidateGet ==
  /\ pc = "get"
  /\ \E r \in FetchResults :
       LET x == buf_page_get_gen([Mtr(frames, memo) EXCEPT !.fetches = fetches],
                                 val.addr[1], r)
       IN  /\ memo' = x.memo
           /\ fetches' = x.fetches
           /\ IF r = DB_SUCCESS /\ val.addr[1] \in DOMAIN frames
                THEN /\ val' = [val EXCEPT !.addr =
                                  IF val.dir = "forward"
                                    THEN flst_get_next_addr(frames, val.addr[1], val.addr[2])
                                    ELSE flst_get_prev_addr(frames, val.addr[1], val.addr[2])]
                     /\ pc' = "commit"
                ELSE /\ val' = val
                     /\ pc' = "asserted"
  /\ UNCHANGED <<placement, frames, committed, mlog, call, err, nops, thr, latch, granted>>

\* mtr2.commit(): what mtr2 holds is released
ValidateCommit ==
  /\ pc = "commit"
  /\ val' = [val EXCEPT !.mtr2 = {}]
  /\ pc' = "test"
  /\ UNCHANGED <<placement, frames, committed, mlog, memo, fetches, call, err, nops,
                 thr, latch, granted>>

\* the end of a loop: ut_ad(addr.page == FIL_NULL); after the first loop
\* addr= flst_get_last(flst) and the second loop starts
ValidateLoopEnd ==
  /\ pc = "test" /\ val.i = 0
  /\ IF val.addr[1] # FIL_NULL
       THEN val' = val /\ pc' = "asserted"
       ELSE IF val.dir = "forward"
              THEN /\ val' = [val EXCEPT !.dir = "backward",
                                         !.i = flst_get_len(frames, BasePage, BaseOff),
                                         !.addr = flst_get_last(frames, BasePage, BaseOff)]
                   /\ pc' = "test"
              ELSE val' = val /\ pc' = "validated"
  /\ UNCHANGED <<placement, frames, committed, mlog, memo, fetches, call, err, nops,
                 thr, latch, granted>>

NextValidate ==
  \/ ValidateEnter
  \/ ValidateLoop
  \/ ValidateGet
  \/ ValidateCommit
  \/ ValidateLoopEnd

SpecValidate == InitValidate /\ [][NextValidate]_vars

\* the latches of traversed pages held by the caller's mini-transaction or
\* by mtr2, the caller's own latch of the base page left out
TraversalLatches == (memo \cup val.mtr2) \ {BasePage}

\* C18: at every point of flst_validate at most one latch of a traversed
\* page is held besides the caller's own latches, however long the list is,
\* because the latch of one hop is released by mtr2.commit() before the
\* next hop starts.
C18_OneTraversalLatch ==
  pc \in {"test", "get", "commit", "validated"} => Cardinality(TraversalLatches) <= 1

\* ------------------------------------------------------ concurrent threads
\* Two threads run operations of fut0lst.cc in mini-transactions of their
\* own, on one list or on two lists with base nodes on different pages.  A
\* page latch is held by one thread at a time (RW_SX_LATCH and RW_X_LATCH
\* exclude each other), a thread may take a latch it holds again, a thread
\* that asks for a latch another thread holds waits, and a thread gives its
\* latches back when its mini-transaction commits.  A fetch that is granted
\* succeeds; a fetch that fails holds up nobody.
MaxThreadOps == 1

Threads == {1, 2}

\* list l has its base node at BaseOff of its own page and owns two nodes
ListBasePage(l) == IF l = 1 THEN BasePage ELSE 5
ListNodes(l) == {2 * l - 1, 2 * l}
ThreadPages == 0 .. 5
ThreadBytes == FIL_PAGE_DATA .. (FIL_PAGE_DATA + 4 * FLST_NODE_SIZE - 1)

\* the pages of the four nodes, up to the names of the pages
ThreadPlacements ==
  {f \in [1 .. 4 -> 1 .. 4] :
     /\ f[1] = 1
     /\ \A i \in 2 .. 4 : \E j \in 1 .. (i - 1) : f[i] <= f[j] + 1}

\* frames in which every node still holds what an earlier list left in it:
\* a null prev and the address of a node of the other list as next
RecycledFrames(pl) ==
  [p \in ThreadPages |->
     [o \in ThreadBytes |->
        IF \E k \in 1 .. 4 : <<p, o>> \in NodeCells(NodeAddr(pl, k))
          THEN LET i == CHOOSE k \in 1 .. 4 : <<p, o>> \in NodeCells(NodeAddr(pl, k))
                   j == o - NodeOff(i)
               IN  IF j < FLST_NEXT THEN fil_addr_byte(NullAddr, j - FLST_PREV)
                   ELSE fil_addr_byte(NodeAddr(pl, 5 - i), j - FLST_NEXT)
          ELSE 0]]

\* the frames after flst_add_last of the nodes of s to list l
RECURSIVE AddAllTo(_, _, _)
AddAllTo(mem, l, s) ==
  IF s = <<>> THEN mem
  ELSE AddAllTo(flst_add_last(Mtr(mem, {ListBasePage(l), s[1][1]}), ListBasePage(l), BaseOff,
                              s[1][1], s[1][2], DB_SUCCESS, DB_SUCCESS).x.mem,
                l, Tail(s))

\* list l made by flst_init and flst_add_last of its first n nodes
WithList(mem, pl, l, n) ==
  AddAllTo(flst_init(Mtr(mem, {ListBasePage(l)}), ListBasePage(l), BaseOff).mem, l,
           [k \in 1 .. n |-> NodeAddr(pl, 2 * l - 2 + k)])

ListForward(mem, l) == Walk(mem, flst_get_first(mem, ListBasePage(l), BaseOff), FLST_NEXT, 3)
ListBackward(mem, l) == Walk(mem, flst_get_last(mem, ListBasePage(l), BaseOff), FLST_PREV, 3)
ListMembers(mem, l) == {ListForward(mem, l)[k] : k \in 1 .. Len(ListForward(mem, l))}

\* the calls a caller that holds the latch of the base page of list l can make
Calls(mem, l) ==
  LET members == ListMembers(mem, l)
      free == {NodeAddr(placement, k) : k \in ListNodes(l)} \ members
  IN  {[op |-> "flst_remove", cur |-> c, add |-> NullAddr] : c \in members}
        \cup {[op |-> o, cur |-> NullAddr, add |-> a] :
                o \in {"flst_add_first", "flst_add_last"}, a \in free}
        \cup {[op |-> o, cur |-> c, add |-> a] :
                o \in {"flst_insert_after", "flst_insert_before"}, c \in members, a \in free}

\* the latches the caller of c on list l takes before the call
CallPages(l, c) == (CallerLatches(c) \ {BasePage}) \cup {ListBasePage(l)}

\* the operation c on list l in a mini-transaction x
RunCall(x, l, c) ==
  CASE c.op = "flst_add_first" ->
         flst_add_first(x, ListBasePage(l), BaseOff, c.add[1], c.add[2], DB_SUCCESS, DB_SUCCESS)
    [] c.op = "flst_add_last" ->
         flst_add_last(x, ListBasePage(l), BaseOff, c.add[1], c.add[2], DB_SUCCESS, DB_SUCCESS)
    [] c.op = "flst_insert_after" ->
         flst_insert_after(x, ListBasePage(l), BaseOff, c.cur[1], c.cur[2],
                           c.add[1], c.add[2], DB_SUCCESS)
    [] c.op = "flst_insert_before" ->
         flst_insert_before(x, ListBasePage(l), BaseOff, c.cur[1], c.cur[2],
                            c.add[1], c.add[2], DB_SUCCESS)
    [] OTHER ->
         flst_remove(x, ListBasePage(l), BaseOff, c.cur[1], c.cur[2], DB_SUCCESS, DB_SUCCESS)

\* the pages of the buf_page_get_gen calls of the operation c on list l, in
\* order; they follow from fields of the base node and of cur, whose pages
\* the caller has latched
FetchList(mem, l, c) ==
  LET made == RunCall(Mtr(mem, CallPages(l, c)), l, c).x.fetches
  IN  [k \in 1 .. Len(made) |-> made[k].page]

InitThreads ==
  /\ placement \in ThreadPlacements
  /\ \E n \in 1 .. 2 :
       frames = WithList(WithList(RecycledFrames(placement), placement, 1, n), placement, 2, n)
  /\ \E same \in BOOLEAN :
       thr = [t \in Threads |->
                [list |-> IF same THEN 1 ELSE t, pc |-> "idle", call |-> NoCall,
                 need |-> <<>>, got |-> 0, ops |-> 0]]
  /\ latch = [p \in ThreadPages |-> 0]
  /\ granted = <<>>
  /\ committed = frames
  /\ mlog = <<>>
  /\ memo = {}
  /\ fetches = <<>>
  /\ call = NoCall
  /\ err = "none"
  /\ pc = "idle"
  /\ nops = 0
  /\ val = NoValidate

\* the caller of thread t takes the latch of the base page of its list,
\* picks an operation, takes the latches of cur and add and makes the call
Begin(t) ==
  /\ thr[t].pc = "idle" /\ thr[t].ops < MaxThreadOps
  /\ \E c \in Calls(frames, thr[t].list) :
       /\ \A p \in CallPages(thr[t].list, c) : latch[p] \in {0, t}
       /\ latch' = [p \in ThreadPages |->
                      IF p \in CallPages(thr[t].list, c) THEN t ELSE latch[p]]
       /\ thr' = [thr EXCEPT ![t].pc = "running", ![t].call = c,
                             ![t].need = FetchList(frames, thr[t].list, c), ![t].got = 0]
       /\ granted' = Append(granted, c)
  /\ UNCHANGED <<placement, frames, committed, mlog, memo, fetches, call, err, pc, nops, val>>

\* the next buf_page_get_gen(..., RW_SX_LATCH, ..., mtr, &err) of the
\* operation of thread t is granted
Fetch(t) ==
  /\ thr[t].pc = "running" /\ thr[t].got < Len(thr[t].need)
  /\ LET p == thr[t].need[thr[t].got + 1]
     IN  /\ latch[p] \in {0, t}
         /\ latch' = [latch EXCEPT ![p] = t]
  /\ thr' = [thr EXCEPT ![t].got = @ + 1]
  /\ UNCHANGED <<placement, frames, committed, mlog, memo, fetches, call, err, pc, nops,
                 val, granted>>

\* the operation of thread t has made its writes and returns
Return(t) ==
  /\ thr[t].pc = "running" /\ thr[t].got = Len(thr[t].need)
  /\ frames' = RunCall(Mtr(frames, CallPages(thr[t].list, thr[t].call) \cup
                                   {thr[t].need[k] : k \in 1 .. Len(thr[t].need)}),
                       thr[t].list, thr[t].call).x.mem
  /\ thr' = [thr EXCEPT ![t].pc = "returned"]
  /\ UNCHANGED <<placement, committed, mlog, memo, fetches, call, err, pc, nops,
                 val, latch, granted>>

\* the mini-transaction of thread t commits and gives its latches back
CommitThread(t) ==
  /\ thr[t].pc = "returned"
  /\ latch' = [p \in ThreadPages |-> IF latch[p] = t THEN 0 ELSE latch[p]]
  /\ thr' = [thr EXCEPT ![t].pc = "idle", ![t].call = NoCall, ![t].need = <<>>,
                        ![t].got = 0, ![t].ops = @ + 1]
  /\ UNCHANGED <<placement, frames, committed, mlog, memo, fetches, call, err, pc, nops,
                 val, granted>>

NextThreads ==
  \E t \in Threads :
    \/ Begin(t)
    \/ Fetch(t)
    \/ Return(t)
    \/ CommitThread(t)

SpecThreads == InitThreads /\ [][NextThreads]_vars

\* both threads work on list 1
SameList == thr[1].list = thr[2].list

\* the list the calls of s make of the list t in the order of s
RECURSIVE AbstractAll(_, _)
AbstractAll(t, s) == IF s = <<>> THEN t ELSE AbstractAll(Abstract(t, Head(s)), Tail(s))

\* C12: when the callers of two threads that work on one list take the
\* latch of the base page first and keep it until commit, one thread at a
\* time is between the grant and its commit, and whenever no operation is
\* under way the list is the one the operations make when run one after the
\* other in the order of the grants: its forward order is that sequence,
\* its backward order the reverse and its length field the length.
C12_SerializedByBaseLatch ==
  SameList =>
    /\ ~(thr[1].pc # "idle" /\ thr[2].pc # "idle")
    /\ (\A t \in Threads : thr[t].pc \in {"idle", "returned"}) =>
         LET fw == ListForward(frames, 1)
         IN  /\ fw = AbstractAll(ListForward(committed, 1), granted)
             /\ ListBackward(frames, 1) = Reverse(fw)
             /\ flst_get_len(frames, ListBasePage(1), BaseOff) = Len(fw)

\* thread 2 was granted the latch first and has committed, thread 1 has
\* then removed the node thread 2 had added behind
C12_Witness ==
  /\ SameList /\ thr[2].ops = 1 /\ thr[1].pc = "returned"
  /\ Len(granted) = 2
  /\ granted[1].op = "flst_add_last" /\ granted[2].op = "flst_remove"
  /\ granted[2].cur = granted[1].add
  /\ Len(ListForward(frames, 1)) = 1

\* the operation of thread t waits for a latch that another thread holds
Blocked(t) ==
  /\ thr[t].pc = "running" /\ thr[t].got < Len(thr[t].need)
  /\ latch[thr[t].need[thr[t].got + 1]] \notin {0, t}

\* the pages that hold nodes of both lists
CommonPages ==
  {placement[k] : k \in ListNodes(1)} \cap {placement[k] : k \in ListNodes(2)}

====
